---- MODULE Spec2Model ----
(***************************************************************************)
(* A model of the buri simulator: the 65C02 wrapper's address dispatch     *)
(* (burisim/lib6502.py), the machine (burisim/sim.py: ROM protection, ROM  *)
(* and RAM loading, the ~IRQ lines, the background stepping loop and its   *)
(* lock) and the 6551-style ACIA (burisim/acia.py).                        *)
(*                                                                         *)
(* The 64K address space is scaled down: MemSize stands for 0x10000 and    *)
(* ROM_SIZE for 0x2000; the ROM is the top ROM_SIZE bytes and the ACIA the *)
(* ACIA1_SIZE bytes right below it, as in BuriSim.ROM_RANGE and            *)
(* BuriSim.ACIA1_RANGE.                                                    *)
(***************************************************************************)
EXTENDS Integers, Sequences, FiniteSets, TLC

\* ------------------------------------------------------------------ bounds
MemSize == 8
ROM_SIZE == 3
MaxQueue == 2
MaxOut == 2
MaxHandlerLen == 2
MaxLines == 2
MaxThreads == 2
MaxAccess == 1
MaxCalls == 5

\* ------------------------------------------------------- program constants
ACIA1_SIZE == 4
ST_IRQ == 128
ST_TDRE == 16
ST_RDRF == 8

ROM_START == MemSize - ROM_SIZE
ROM_END == MemSize
ACIA1_START == ROM_START - ACIA1_SIZE
ACIA1_END == ACIA1_START + ACIA1_SIZE

Addr == 0 .. (MemSize - 1)
RomRange == ROM_START .. (ROM_END - 1)

\* The byte values the inputs are drawn from: the command and control
\* registers are written with 0 or 4 (bits 3:2 = 01, the value the interrupt
\* tests look for), 65 ('A') is transmitted, 65 and 66 ('B') are received; where the order of
\* transmissions matters both are transmitted.
RegVals == {0, 4}
TxVals == {65}
TxPair == {65, 66}
RxVals == {65, 66}

\* The values a write of register reg_idx is tried with.
WriteVals(reg_idx) == IF reg_idx \in {2, 3} THEN RegVals ELSE TxVals

NoValue == 0 - 1

\* ------------------------------------------------------------ bit helpers
HasBit(x, bit) == (x \div bit) % 2 = 1
SetBit(x, bit) == IF HasBit(x, bit) THEN x ELSE x + bit
ClearBit(x, bit) == IF HasBit(x, bit) THEN x - bit ELSE x

\* ===================================================================== ACIA
\* The state of one ACIA object is a record a:
\*   recv_data, status_reg, command_reg, control_reg   the registers
\*   in_buffer     the deque of received bytes
\*   serial_port   whether a serial port object is attached
\*   sp_chars      the characters the attached port has available to read
\*   sp_out        the characters put to the attached port
\*   set_reg       the last value passed to the set-register callback, per register

\* self._set_reg_cb(number, value)
set_reg_cb(a, number, value) == [a EXCEPT !.set_reg[number] = value]

\* ACIA._trigger_irq: the test reads the control register, bits 3:2.
trigger_irq(a) ==
    IF (a.control_reg \div 4) % 4 = 1
    THEN set_reg_cb([a EXCEPT !.status_reg = SetBit(SetBit(a.status_reg, ST_IRQ), ST_TDRE)],
                    1, SetBit(SetBit(a.status_reg, ST_IRQ), ST_TDRE))
    ELSE a

\* The while loop of ACIA.poll: every available character of the port is
\* appended to the input buffer.
drain_port(a) == [a EXCEPT !.in_buffer = a.in_buffer \o a.sp_chars, !.sp_chars = << >>]

\* The transfer at the end of ACIA.poll: the head of the buffer goes to the
\* receive data register when that register is empty.
transfer(a) ==
    IF Len(a.in_buffer) > 0 /\ ~HasBit(a.status_reg, ST_RDRF)
    THEN trigger_irq(
           set_reg_cb(
             set_reg_cb(
               [a EXCEPT !.recv_data = Head(a.in_buffer),
                         !.in_buffer = Tail(a.in_buffer),
                         !.status_reg = SetBit(a.status_reg, ST_RDRF)],
               0, Head(a.in_buffer)),
             1, SetBit(a.status_reg, ST_RDRF)))
    ELSE a

\* ACIA.poll
poll(a) == IF ~a.serial_port THEN a ELSE transfer(drain_port(a))

reset_flushing(a) ==
    set_reg_cb(set_reg_cb(set_reg_cb(
        [a EXCEPT !.status_reg = 16, !.control_reg = 0, !.command_reg = 0,
                  !.in_buffer = << >>, !.recv_data = 0],
        1, 16), 2, 0), 3, 0)

\* ACIA.hw_reset
hw_reset(a) ==
    set_reg_cb(set_reg_cb(set_reg_cb(
        [a EXCEPT !.status_reg = 16, !.control_reg = 0, !.command_reg = 0],
        1, 16), 2, 0), 3, 0)

reset_with_control(a) ==
    set_reg_cb(set_reg_cb(
        [a EXCEPT !.status_reg = 16, !.command_reg = 0, !.control_reg = 0],
        1, 16), 2, 0)

\* ACIA._prog_reset
prog_reset(a) ==
    set_reg_cb(set_reg_cb(
        [a EXCEPT !.status_reg = 16, !.command_reg = 0],
        1, 16), 2, 0)

put_char_if_idle(a, value) ==
    IF a.serial_port /\ a.sp_out = << >> THEN [a EXCEPT !.sp_out = << value >>] ELSE a

\* self.serial_port.putChar(value), when a port is attached
put_char(a, value) ==
    IF a.serial_port THEN [a EXCEPT !.sp_out = Append(a.sp_out, value)] ELSE a

tx_unguarded(a, value) ==
    put_char([a EXCEPT !.status_reg = SetBit(a.status_reg, ST_TDRE)], value)

\* ACIA._tx
tx(a, value) ==
    IF ~HasBit(a.status_reg, ST_TDRE)
    THEN a
    ELSE LET sent == put_char([a EXCEPT !.status_reg = ClearBit(a.status_reg, ST_TDRE)], value)
             done == [sent EXCEPT !.status_reg = SetBit(sent.status_reg, ST_TDRE)]
             noted == set_reg_cb(done, 1, done.status_reg)
         IN  IF (noted.command_reg \div 4) % 4 = 1 THEN trigger_irq(noted) ELSE noted

\* The result of a register access: the ACIA afterwards, the value returned
\* and the exception raised.
Result(a, ret, exc) == [acia |-> a, ret |-> ret, exc |-> exc]

write_reg_lenient(a, reg_idx, value) ==
    Result([a EXCEPT !.control_reg = value], NoValue, "none")

\* ACIA.write_reg
write_reg(a, reg_idx, value) ==
    CASE reg_idx = 0 -> Result(tx(a, value), NoValue, "none")
      [] reg_idx = 1 -> Result(prog_reset(a), NoValue, "none")
      [] reg_idx = 2 -> Result(set_reg_cb([a EXCEPT !.command_reg = value], 2, value),
                               NoValue, "none")
      [] reg_idx = 3 -> Result(set_reg_cb([a EXCEPT !.control_reg = value], 3, value),
                               NoValue, "none")
      [] OTHER -> Result(a, NoValue, "IndexError")

read_data_keeping_rdrf(a) == Result(a, a.recv_data, "none")

\* ACIA.read_reg, register 0
read_data(a) ==
    Result([a EXCEPT !.status_reg = ClearBit(a.status_reg, ST_RDRF)], a.recv_data, "none")

read_status_cleared(a) ==
    Result([a EXCEPT !.status_reg = ClearBit(a.status_reg, ST_IRQ)],
           ClearBit(a.status_reg, ST_IRQ), "none")

\* ACIA.read_reg, register 1
read_status(a) ==
    Result([a EXCEPT !.status_reg = ClearBit(a.status_reg, ST_IRQ)], a.status_reg, "none")

read_reg_as_status(a, reg_idx) == read_status(a)

\* ACIA.read_reg
read_reg(a, reg_idx) ==
    CASE reg_idx = 0 -> read_data(a)
      [] reg_idx = 1 -> read_status(a)
      [] reg_idx = 2 -> Result(a, a.command_reg, "none")
      [] reg_idx = 3 -> Result(a, a.control_reg, "none")
      [] OTHER -> Result(a, NoValue, "IndexError")

\* ACIA.receive_byte, called by the terminal front ends: the byte is appended
\* to the input buffer and the ACIA is polled.
receive_byte(a, b) == poll([a EXCEPT !.in_buffer = Append(a.in_buffer, b)])

\* ACIA.__init__: the registers are zeroed, then hw_reset() runs.
NewAcia ==
    hw_reset([recv_data |-> 0, status_reg |-> 0, command_reg |-> 0, control_reg |-> 0,
              in_buffer |-> << >>, serial_port |-> FALSE, sp_chars |-> << >>,
              sp_out |-> << >>, set_reg |-> [r \in 0 .. 3 |-> 0]])

\* =================================================================== M6502
\* A registered handler is an interval of the tree: [begin, end) and the
\* callable, which is "rom" (raise_rom_exception), "acia1" (the ACIA's
\* read_reg or write_reg) or one of the Probes, handlers that only record
\* that they were called.
Probes == {"h1", "h2"}

Interval(begin, end, data) == [begin |-> begin, end |-> end, data |-> data]

\* tree[addr]: the set of the intervals that contain addr
covering(cbs, addr) == {i \in cbs : i.begin <= addr /\ addr < i.end}

\* The orders in which a set may be iterated.
Orders(S) == {o \in [1 .. Cardinality(S) -> S] : \A x \in S : \E k \in 1 .. Cardinality(S) : o[k] = x}

\* The state threaded through the handlers of one access: the ACIA, the
\* calls made so far, the value returned last and the exception raised.
Access(a) == [acia |-> a, calls |-> << >>, ret |-> 0, exc |-> "none",
              exc_address |-> NoValue, exc_value |-> NoValue]

Call(h, addr, value) == [data |-> h.data, begin |-> h.begin, addr |-> addr, value |-> value]

raise_relative(st, addr, value) ==
    [st EXCEPT !.exc = "ReadOnlyMemoryError", !.exc_address = addr, !.exc_value = value]

\* raise_rom_exception of BuriSim.__init__
raise_rom_exception(st, addr, value) ==
    [st EXCEPT !.exc = "ReadOnlyMemoryError",
               !.exc_address = addr + ROM_START, !.exc_value = value]

\* i.data(addr - i.begin, data) for a write handler i
call_write_cb(st, i, addr, value) ==
    LET noted == [st EXCEPT !.calls = Append(st.calls, Call(i, addr, value))]
    IN  CASE i.data = "rom" -> raise_rom_exception(noted, addr, value)
          [] i.data = "acia1" ->
                [noted EXCEPT !.acia = write_reg(st.acia, addr, value).acia,
                              !.exc = write_reg(st.acia, addr, value).exc]
          [] OTHER -> noted

\* v = i.data(addr - i.begin) for a read handler i
call_read_cb(st, i, addr) ==
    LET noted == [st EXCEPT !.calls = Append(st.calls, Call(i, addr, NoValue))]
    IN  CASE i.data = "acia1" ->
                [noted EXCEPT !.acia = read_reg(st.acia, addr).acia,
                              !.ret = read_reg(st.acia, addr).ret,
                              !.exc = read_reg(st.acia, addr).exc]
          [] OTHER -> [noted EXCEPT !.ret = 0]

handler_address_absolute(addr, i) == addr

\* addr - i.begin
handler_address(addr, i) == addr - i.begin

first_only(order) == IF order = << >> THEN order ELSE << Head(order) >>

\* The handlers a dispatch iterates over, in the order of the iteration: all
\* of tree[addr].
iterated(order) == order

\* M6502._write: the handlers of tree[addr] are called one after the other;
\* an exception raised by one ends the loop.
RECURSIVE write_loop(_, _, _, _)
write_loop(st, order, addr, data) ==
    IF order = << >> \/ st.exc # "none"
    THEN st
    ELSE write_loop(call_write_cb(st, Head(order), handler_address(addr, Head(order)), data),
                    Tail(order), addr, data)

\* M6502._read: v is the value returned by the handler called last.
RECURSIVE read_loop(_, _, _)
read_loop(st, order, addr) ==
    IF order = << >> \/ st.exc # "none"
    THEN st
    ELSE read_loop(call_read_cb(st, Head(order), handler_address(addr, Head(order))),
                   Tail(order), addr)

\* ================================================================= BuriSim
next_no_wrap(rom_bytes, pos) == IF pos = Len(rom_bytes) THEN pos ELSE pos + 1

\* itertools.cycle(rom_bytes): after the last byte comes the first again.
next_in_cycle(rom_bytes, pos) == IF pos = Len(rom_bytes) THEN 1 ELSE pos + 1

copy_rom_over_image(mem, addr, rom_bytes, pos) ==
    IF rom_bytes = << >> THEN mem
    ELSE [a \in DOMAIN mem |-> rom_bytes[(a % Len(rom_bytes)) + 1]]

\* The loop of load_rom_bytes over zip(range(*ROM_RANGE), cycle(rom_bytes)):
\* it ends with the range, or at once when rom_bytes is empty.
RECURSIVE copy_rom(_, _, _, _)
copy_rom(mem, addr, rom_bytes, pos) ==
    IF addr >= ROM_END \/ rom_bytes = << >>
    THEN mem
    ELSE copy_rom([mem EXCEPT ![addr] = rom_bytes[pos]], addr + 1,
                  rom_bytes, next_in_cycle(rom_bytes, pos))

ram_index_base(addr, off) == addr

\* load_ram_bytes: the cell that byte off of the image goes to, addr + off.
ram_index(addr, off) == addr + off

\* The loop of load_ram_bytes over enumerate(ram_bytes): memory is a bare
\* pointer, so only the bytes that fall inside the image land in it.
RECURSIVE copy_ram(_, _, _, _)
copy_ram(mem, addr, ram_bytes, off) ==
    IF off >= Len(ram_bytes)
    THEN mem
    ELSE copy_ram(IF ram_index(addr, off) \in Addr
                  THEN [mem EXCEPT ![ram_index(addr, off)] = ram_bytes[off + 1]]
                  ELSE mem,
                  addr, ram_bytes, off + 1)

\* How load_ram_bytes ends: a store through the bare pointer past the end of
\* the image is not checked, so the call returns or the process is killed.
ram_outcomes(addr, ram_bytes) ==
    IF addr + Len(ram_bytes) <= MemSize THEN {"none"} ELSE {"none", "killed"}

AciaWriteCbsOnly == {Interval(ACIA1_START, ACIA1_START + ACIA1_SIZE, "acia1")}

\* BuriSim.__init__: the ROM is registered read-only, then the ACIA.
InitWriteCbs == {Interval(ROM_START, ROM_START + ROM_SIZE, "rom"),
                 Interval(ACIA1_START, ACIA1_START + ACIA1_SIZE, "acia1")}
InitReadCbs == {Interval(ACIA1_START, ACIA1_START + ACIA1_SIZE, "acia1")}

\* ================================================================= HD44780
\* The display controller is a record:
\*   ddram         the display RAM, a sequence; cell k of the list is ddram[k + 1]
\*   cursor_index  the address counter
DDRAM_SIZE == 128
AC_MASK == 127
SET_ADDRESS == 128
RETURN_HOME == 2
CLEAR_DISPLAY == 1
Blank == 32

\* The result of an access: the controller afterwards, the value returned,
\* the exception raised and the number of update signals emitted.
LcdResult(l, ret, exc, emits) == [lcd |-> l, ret |-> ret, exc |-> exc, emits |-> emits]

\* [ord(' ')] * 128
blank_ddram == [k \in 1 .. DDRAM_SIZE |-> Blank]

\* HD44780.reset, which __init__ calls
NewLcd == [ddram |-> blank_ddram, cursor_index |-> 0]

advance_ac_no_wrap(l) == [l EXCEPT !.cursor_index = l.cursor_index + 1]

\* HD44780._advance_ac: (cursor_index + 1) & 0x7f
advance_ac(l) == [l EXCEPT !.cursor_index = (l.cursor_index + 1) % (AC_MASK + 1)]

\* HD44780.write, the data register
write_data(l, value) ==
    advance_ac(IF l.cursor_index < Len(l.ddram)
               THEN [l EXCEPT !.ddram[l.cursor_index + 1] = value]
               ELSE l)

\* HD44780.write, the instruction register
write_instruction(l, value) ==
    IF HasBit(value, SET_ADDRESS) THEN [l EXCEPT !.cursor_index = value % (AC_MASK + 1)]
    ELSE IF value = CLEAR_DISPLAY THEN [ddram |-> blank_ddram, cursor_index |-> 0]
    ELSE IF HasBit(value, RETURN_HOME) THEN [l EXCEPT !.cursor_index = 0]
    ELSE l

\* HD44780.write
lcd_write(l, reg, value) ==
    IF reg \notin {0, 1}
    THEN LcdResult(l, NoValue, "IndexError", 0)
    ELSE LcdResult(IF reg = 1 THEN write_data(l, value) ELSE write_instruction(l, value),
                   NoValue, "none", 1)

lcd_read_in_place(l, reg) ==
    LcdResult(l, l.ddram[(l.cursor_index % Len(l.ddram)) + 1], "none", 0)

\* HD44780.read
lcd_read(l, reg) ==
    IF reg \notin {0, 1}
    THEN LcdResult(l, NoValue, "IndexError", 0)
    ELSE IF reg = 1
         THEN LcdResult(advance_ac(l), l.ddram[(l.cursor_index % Len(l.ddram)) + 1], "none", 0)
         ELSE LcdResult(l, l.cursor_index, "none", 0)

\* ================================================================ variables
VARIABLES
    acia1,        \* the ACIA object (BuriSim.acia1)
    last,         \* the last operation: its name, arguments, result and exception
    probe,        \* observer of the receive round trip: [stage, byte]; stage 1 after a
                  \* byte was delivered to an empty receiver, 2 after the poll that
                  \* follows, 3 and 4 after the first and second read of register 0
    memory,       \* the memory image of the processor (M6502.memory)
    write_cbs,    \* M6502._write_cbs, a set of intervals
    read_cbs,     \* M6502._read_cbs, a set of intervals
    reg_order,    \* the write handlers in the order of their registration
    irq_lines,    \* BuriSim._irq_lines: line idx-1 is irq_lines[idx], TRUE when high
    irq_count,    \* the number of calls of mpu.irq()
    irq_log,      \* the calls of the line setters, oldest first
    mpu_lock,     \* BuriSim._mpu_lock: Unlocked, or the thread that holds it
    want_stop,    \* BuriSim._want_stop
    mpu_thread,   \* BuriSim._mpu_thread: NoThread, or the thread created last
    thread_pc,    \* where each stepping thread is in loop()
    main,         \* where the caller of the machine's methods is: [pc, op, arg]
    mpu_regs,     \* the processor state: "reset" or "stepped"
    accesses,     \* the memory accesses of the batch in progress
    stop_returned, \* stop() has returned and start() has not started a thread since
    lcd           \* an HD44780, a device of its own: [ddram, cursor_index]

aciaVars == << acia1, probe >>
busVars == << memory, write_cbs, read_cbs, reg_order >>
irqVars == << irq_lines, irq_count, irq_log >>
lcdVars == << lcd >>
runVars == << mpu_lock, want_stop, mpu_thread, thread_pc, main, mpu_regs, accesses,
              stop_returned >>
vars == << acia1, last, probe, memory, write_cbs, read_cbs, reg_order,
           irq_lines, irq_count, irq_log,
           mpu_lock, want_stop, mpu_thread, thread_pc, main, mpu_regs, accesses,
           stop_returned, lcd >>

\* The stepping threads are numbered in the order start() creates them.
Unlocked == 0
NoThread == 0
Threads == 1 .. MaxThreads
MainThread == MaxThreads + 1
Idle_main == [pc |-> "idle", op |-> "none", arg |-> << >>]

Op(op, arg, val, ret, exc) == [op |-> op, arg |-> arg, val |-> val, ret |-> ret, exc |-> exc]
NoOp == Op("init", NoValue, NoValue, NoValue, "none")
Idle == [stage |-> 0, byte |-> NoValue]

\* The bytes waiting to be received, oldest first: those already in the input
\* buffer, then those the attached port still holds.
Pending(a) == a.in_buffer \o a.sp_chars

RDRF(a) == HasBit(a.status_reg, ST_RDRF)
TDRE(a) == HasBit(a.status_reg, ST_TDRE)
IRQ(a) == HasBit(a.status_reg, ST_IRQ)

\* ------------------------------------------------------- ACIA operations
\* A serial port object is attached (ACIA.serial_port is set).
AttachPort ==
    /\ ~acia1.serial_port
    /\ acia1' = [acia1 EXCEPT !.serial_port = TRUE]
    /\ last' = Op("attach", NoValue, NoValue, NoValue, "none")
    /\ probe' = Idle
    /\ UNCHANGED << busVars, irqVars, lcdVars, runVars >>

\* A character arrives at the attached port and waits there to be read.
PortArrive(b) ==
    /\ acia1.serial_port
    /\ Len(Pending(acia1)) < MaxQueue
    /\ acia1' = [acia1 EXCEPT !.sp_chars = Append(acia1.sp_chars, b)]
    /\ last' = Op("port_arrive", NoValue, b, NoValue, "none")
    /\ probe' = IF ~RDRF(acia1) /\ Pending(acia1) = << >>
                THEN [stage |-> 1, byte |-> b] ELSE Idle
    /\ UNCHANGED << busVars, irqVars, lcdVars, runVars >>

\* The far end reads what was put to the port.
PortTake ==
    /\ acia1.sp_out # << >>
    /\ acia1' = [acia1 EXCEPT !.sp_out = << >>]
    /\ last' = Op("port_take", NoValue, NoValue, NoValue, "none")
    /\ probe' = Idle
    /\ UNCHANGED << busVars, irqVars, lcdVars, runVars >>

ReceiveByte(b) ==
    /\ Len(Pending(acia1)) < MaxQueue
    /\ acia1' = receive_byte(acia1, b)
    /\ last' = Op("receive_byte", NoValue, b, NoValue, "none")
    /\ probe' = IF ~RDRF(acia1) /\ Pending(acia1) = << >>
                THEN [stage |-> 1, byte |-> b] ELSE Idle
    /\ UNCHANGED << busVars, irqVars, lcdVars, runVars >>

Poll ==
    /\ acia1' = poll(acia1)
    /\ last' = Op("poll", NoValue, NoValue, NoValue, "none")
    /\ probe' = IF probe.stage = 1 THEN [probe EXCEPT !.stage = 2] ELSE Idle
    /\ UNCHANGED << busVars, irqVars, lcdVars, runVars >>

ReadReg(reg_idx) ==
    /\ acia1' = read_reg(acia1, reg_idx).acia
    /\ last' = Op("read_reg", reg_idx, NoValue,
                  read_reg(acia1, reg_idx).ret, read_reg(acia1, reg_idx).exc)
    /\ probe' = IF probe.stage \in {2, 3} /\ reg_idx = 0
                THEN [probe EXCEPT !.stage = probe.stage + 1] ELSE Idle
    /\ UNCHANGED << busVars, irqVars, lcdVars, runVars >>

WriteReg(reg_idx, value) ==
    /\ (reg_idx = 0 /\ acia1.serial_port) => Len(acia1.sp_out) < MaxOut
    /\ acia1' = write_reg(acia1, reg_idx, value).acia
    /\ last' = Op("write_reg", reg_idx, value, NoValue, write_reg(acia1, reg_idx, value).exc)
    /\ probe' = Idle
    /\ UNCHANGED << busVars, irqVars, lcdVars, runVars >>

HwReset ==
    /\ acia1' = hw_reset(acia1)
    /\ last' = Op("hw_reset", NoValue, NoValue, NoValue, "none")
    /\ probe' = Idle
    /\ UNCHANGED << busVars, irqVars, lcdVars, runVars >>

\* The machine around the ACIA as BuriSim.__init__ leaves it.
RestInit ==
    /\ last = NoOp
    /\ probe = Idle
    /\ memory = [a \in Addr |-> 0]
    /\ write_cbs = InitWriteCbs
    /\ read_cbs = InitReadCbs
    /\ reg_order = << >>
    /\ irq_lines = << TRUE >>
    /\ irq_count = 0
    /\ irq_log = << >>
    /\ mpu_lock = Unlocked
    /\ want_stop = TRUE
    /\ mpu_thread = NoThread
    /\ thread_pc = [t \in Threads |-> "unborn"]
    /\ main = Idle_main
    /\ mpu_regs = "reset"
    /\ accesses = 0
    /\ stop_returned = FALSE
    /\ lcd = NewLcd

\* The machine as BuriSim.__init__ leaves it.
MachineInit ==
    /\ acia1 = NewAcia
    /\ RestInit

AciaInit == MachineInit

\* The ACIA on its own; the far end takes a transmitted character before the
\* next one is written.
AciaNext ==
    \/ AttachPort
    \/ \E b \in RxVals : PortArrive(b)
    \/ PortTake
    \/ \E b \in RxVals : ReceiveByte(b)
    \/ Poll
    \/ \E reg_idx \in 0 .. ACIA1_SIZE : ReadReg(reg_idx)
    \/ \E reg_idx \in 0 .. ACIA1_SIZE : \E value \in WriteVals(reg_idx) :
          /\ reg_idx = 0 => acia1.sp_out = << >>
          /\ WriteReg(reg_idx, value)
    \/ HwReset

SpecAcia == AciaInit /\ [][AciaNext]_vars

\* ACIA._tx as a function of the registers it finds: the status register is
\* drawn from every combination of the IRQ, TDRE and RDRF bits.
StatusVals == {i + t + r : i \in {0, ST_IRQ}, t \in {0, ST_TDRE}, r \in {0, ST_RDRF}}

TxStates ==
    {[NewAcia EXCEPT !.status_reg = st, !.command_reg = cmd, !.control_reg = ctl,
                     !.serial_port = sp, !.in_buffer = buf] :
        st \in StatusVals, cmd \in RegVals, ctl \in RegVals, sp \in BOOLEAN,
        buf \in {<< >>, << 66 >>}}

TxInit ==
    /\ acia1 \in TxStates
    /\ RestInit

TxNext ==
    \/ \E value \in TxPair : WriteReg(0, value)
    \/ PortTake

SpecTx == TxInit /\ [][TxNext]_vars

\* ACIA._tx when serial_port.putChar raises: TDRE was cleared before the call
\* and the statements after the call are not reached.
tx_sink_raises(a, value) == [a EXCEPT !.status_reg = ClearBit(a.status_reg, ST_TDRE)]

\* write_reg(0, value) with a port whose putChar raises.
WriteRegSinkRaises(value) ==
    /\ acia1.serial_port
    /\ TDRE(acia1)
    /\ acia1' = tx_sink_raises(acia1, value)
    /\ last' = Op("write_reg", 0, value, NoValue, "SinkError")
    /\ probe' = Idle
    /\ UNCHANGED << busVars, irqVars, lcdVars, runVars >>

SinkNext ==
    \/ \E value \in TxPair : WriteReg(0, value)
    \/ \E value \in TxPair : WriteRegSinkRaises(value)
    \/ PortTake

SpecSink == TxInit /\ [][SinkNext]_vars

\* The values the command register is programmed with: none of its bits set,
\* and all of them.
CommandVals == {0, 255}

\* The command register written on an ACIA in any state of its registers.
CommandNext == \E value \in CommandVals : WriteReg(2, value)

SpecCommand == TxInit /\ [][CommandNext]_vars

\* ---------------------------------------------------- machine operations
\* The bytes the processor writes and the images that are loaded.
BusVals == {0, 65}
DispatchVals == {0}

\* Without a handler the processor writes the memory image itself.
raw_write(mem, addr, value) == [mem EXCEPT ![addr] = value]

\* Without a handler the processor reads the memory image itself.
raw_read(mem, addr) == mem[addr]

\* What is recorded of an access: the access, its outcome, the handler calls
\* it made, and whether it came right after a load_rom_bytes().
BusOp(op, arg, val, st) ==
    [op |-> op, arg |-> arg, val |-> val, ret |-> st.ret, exc |-> st.exc,
     calls |-> st.calls, exc_address |-> st.exc_address, exc_value |-> st.exc_value,
     after_rom_load |-> (last.op = "load_rom_bytes")]

\* The processor writes value to addr: _write_cb and M6502._write.
M6502_write(addr, value) ==
    /\ (addr = ACIA1_START /\ acia1.serial_port) => Len(acia1.sp_out) < MaxOut
    /\ \E order \in Orders(covering(write_cbs, addr)) :
          LET st == write_loop(Access(acia1), iterated(order), addr, value)
          IN  /\ acia1' = st.acia
              /\ memory' = IF covering(write_cbs, addr) = {}
                           THEN raw_write(memory, addr, value) ELSE memory
              /\ last' = BusOp("write", addr, value, [st EXCEPT !.ret = NoValue])
    /\ probe' = Idle
    /\ UNCHANGED << write_cbs, read_cbs, reg_order, irqVars, lcdVars >>

\* A write of the program the processor runs, outside the stepping loop.
CpuWrite(addr, value) ==
    /\ M6502_write(addr, value)
    /\ UNCHANGED runVars

\* The processor reads addr: _read_cb and M6502._read.
CpuRead(addr) ==
    /\ \E order \in Orders(covering(read_cbs, addr)) :
          LET st == read_loop(Access(acia1), iterated(order), addr)
          IN  /\ acia1' = st.acia
              /\ last' = BusOp("read", addr, NoValue,
                               IF covering(read_cbs, addr) = {}
                               THEN [st EXCEPT !.ret = raw_read(memory, addr)] ELSE st)
    /\ probe' = Idle
    /\ UNCHANGED << memory, write_cbs, read_cbs, reg_order, irqVars, lcdVars, runVars >>

\* M6502.register_write_handler(offset, length, write_cb)
RegisterWriteHandler(offset, length, write_cb) ==
    /\ Cardinality(read_cbs) + Len(reg_order) <= Cardinality(Probes)
    /\ \A i \in write_cbs : i.data # write_cb
    /\ offset + length <= MemSize
    /\ write_cbs' = write_cbs \cup {Interval(offset, offset + length, write_cb)}
    /\ reg_order' = Append(reg_order, Interval(offset, offset + length, write_cb))
    /\ last' = Op("register_write_handler", NoValue, NoValue, NoValue, "none")
    /\ probe' = Idle
    /\ UNCHANGED << acia1, memory, read_cbs, irqVars, lcdVars, runVars >>

\* M6502.register_read_handler(offset, length, read_cb)
RegisterReadHandler(offset, length, read_cb) ==
    /\ Cardinality(read_cbs) + Len(reg_order) <= Cardinality(Probes)
    /\ \A i \in read_cbs : i.data # read_cb
    /\ offset + length <= MemSize
    /\ read_cbs' = read_cbs \cup {Interval(offset, offset + length, read_cb)}
    /\ reg_order' = reg_order
    /\ last' = Op("register_read_handler", NoValue, NoValue, NoValue, "none")
    /\ probe' = Idle
    /\ UNCHANGED << acia1, memory, write_cbs, irqVars, lcdVars, runVars >>

\* BuriSim.load_rom_bytes(rom_bytes)
LoadRomBytes(rom_bytes) ==
    /\ memory' = copy_rom(memory, ROM_START, rom_bytes, 1)
    /\ last' = Op("load_rom_bytes", NoValue, rom_bytes, NoValue, "none")
    /\ probe' = Idle
    /\ UNCHANGED << acia1, write_cbs, read_cbs, reg_order, irqVars, lcdVars, runVars >>

\* BuriSim.load_ram_bytes(ram_bytes, addr)
LoadRamBytes(ram_bytes, addr) ==
    /\ memory' = copy_ram(memory, addr, ram_bytes, 0)
    /\ \E exc \in ram_outcomes(addr, ram_bytes) :
          last' = Op("load_ram_bytes", addr, ram_bytes, NoValue, exc)
    /\ probe' = Idle
    /\ UNCHANGED << acia1, write_cbs, read_cbs, reg_order, irqVars, lcdVars, runVars >>

\* The byte strings of the lengths 0 .. n
Strings(vals, n) == UNION {[1 .. k -> vals] : k \in 0 .. n}

MaxRamLen == 2

\* The RAM images that are loaded: "A", "AB", "ABA", ... up to MaxRamLen bytes.
RamImages == {[i \in 1 .. n |-> IF i % 2 = 1 THEN 65 ELSE 66] : n \in 0 .. MaxRamLen}

\* The addresses of RAM and ROM; the device registers have their own
\* specification.
BusAddrs == Addr \ (ACIA1_START .. ACIA1_END - 1)

\* The machine on its bus: the writes of the processor and the image loads.
BusNext ==
    \/ \E addr \in BusAddrs, value \in BusVals : CpuWrite(addr, value)
    \/ \E rom_bytes \in Strings(BusVals, ROM_SIZE + 1) : LoadRomBytes(rom_bytes)
    \/ \E ram_bytes \in RamImages, addr \in BusAddrs : LoadRamBytes(ram_bytes, addr)

SpecBus == MachineInit /\ [][BusNext]_vars

\* The dispatch of the processor's accesses to registered handlers.
DispatchNext ==
    \/ \E offset \in Addr, length \in 1 .. MaxHandlerLen, h \in Probes :
          RegisterWriteHandler(offset, length, h)
    \/ \E offset \in Addr, length \in 1 .. MaxHandlerLen :
          RegisterReadHandler(offset, length, "h1")
    \/ \E addr \in Addr, value \in DispatchVals : CpuWrite(addr, value)
    \/ \E addr \in Addr : CpuRead(addr)

SpecDispatch == MachineInit /\ [][DispatchNext]_vars

\* ------------------------------------------------------------ ~IRQ lines
\* BuriSim.irq: the AND of the ~IRQ lines, TRUE when no device pulls it low.
irq(lines) == \A k \in 1 .. Len(lines) : lines[k]

irq_level(prev_irq, new_irq) == ~new_irq

\* The test of the setter: the ~IRQ line was high and is low now.
irq_edge(prev_irq, new_irq) == prev_irq /\ ~new_irq

\* BuriSim._new_irq_line: the new line is high.
NewIrqLine ==
    /\ Len(irq_lines) < MaxLines
    /\ irq_lines' = Append(irq_lines, TRUE)
    /\ last' = Op("new_irq_line", Len(irq_lines), NoValue, NoValue, "none")
    /\ UNCHANGED << aciaVars, busVars, irq_count, irq_log, runVars, lcdVars >>

\* setter(flag) of line idx, 0-based as in _irq_lines
Setter(idx, flag) ==
    /\ Len(irq_log) < MaxCalls
    /\ irq_lines' = [irq_lines EXCEPT ![idx + 1] = flag]
    /\ irq_count' = IF irq_edge(irq(irq_lines), irq(irq_lines')) THEN irq_count + 1 ELSE irq_count
    /\ irq_log' = Append(irq_log, [idx |-> idx, flag |-> flag])
    /\ last' = Op("setter", idx, flag, NoValue, "none")
    /\ UNCHANGED << aciaVars, busVars, runVars, lcdVars >>

IrqNext ==
    \/ NewIrqLine
    \/ \E idx \in 0 .. (Len(irq_lines) - 1), flag \in BOOLEAN : Setter(idx, flag)

SpecIrq == MachineInit /\ [][IrqNext]_vars

\* The number of times the combined signal went from "no line asserted" to
\* "a line asserted" over the setter calls log[k ..], asserted being the
\* devices that assert their line before call k. A device asserts its line by
\* pulling it low: setter(False).
RECURSIVE RisingEdges(_, _, _)
RisingEdges(log, k, asserted) ==
    IF k > Len(log)
    THEN 0
    ELSE LET now == IF log[k].flag THEN asserted \ {log[k].idx}
                                   ELSE asserted \cup {log[k].idx}
         IN  (IF asserted = {} /\ now # {} THEN 1 ELSE 0) + RisingEdges(log, k + 1, now)

\* C3: mpu.irq() has been called once for each transition of the combined
\* signal from "no line asserted" to "at least one line asserted", and for no
\* other change of a line.
C3_IrqOncePerRisingEdge == irq_count = RisingEdges(irq_log, 1, {})

\* Two devices: A asserts (one call), B asserts (none), A clears, B clears,
\* A asserts again (one more call).
C3_Witness ==
    /\ irq_log = << [idx |-> 0, flag |-> FALSE], [idx |-> 1, flag |-> FALSE],
                    [idx |-> 0, flag |-> TRUE], [idx |-> 1, flag |-> TRUE],
                    [idx |-> 0, flag |-> FALSE] >>
    /\ irq_count = 2

\* --------------------------------------------------- machine bus claims
\* C1: a write of v to an address a of the ROM range, dispatched through the
\* write handlers, leaves the memory image as it was and raises a read-only
\* memory error that carries the absolute address a and the value v.
C1_RomWriteRejected ==
    [][(last'.op = "write" /\ last'.arg \in RomRange) =>
          /\ memory' = memory
          /\ last'.exc = "ReadOnlyMemoryError"
          /\ last'.exc_address = last'.arg
          /\ last'.exc_value = last'.val]_vars

\* A write of 0 to a ROM byte that holds 65 was rejected and the byte is still 65.
C1_Witness ==
    /\ last.op = "write"
    /\ last.arg \in RomRange
    /\ last.arg > ROM_START
    /\ last.val = 0
    /\ memory[last.arg] = 65
    /\ last.exc = "ReadOnlyMemoryError"

\* The write handlers that cover addr, and of them the one registered last:
\* the probe registered last if a probe covers addr, else the handler that
\* BuriSim.__init__ registered.
Covers(i, addr) == i.begin <= addr /\ addr < i.end
LastRegistered(addr) ==
    IF \E k \in 1 .. Len(reg_order) : Covers(reg_order[k], addr)
    THEN reg_order[CHOOSE k \in 1 .. Len(reg_order) :
                      /\ Covers(reg_order[k], addr)
                      /\ \A j \in (k + 1) .. Len(reg_order) : ~Covers(reg_order[j], addr)]
    ELSE CHOOSE i \in InitWriteCbs : Covers(i, addr)

\* C2 as claimed: a write calls at most one handler, and where handlers
\* overlap it calls the one that was registered last.
C2_LastRegistrationWins ==
    (last.op = "write" /\ covering(write_cbs, last.arg) # {}) =>
        /\ Len(last.calls) = 1
        /\ last.calls[1].data = LastRegistered(last.arg).data

\* C2 as the code has it: a write calls the handlers that cover the address
\* one after the other, in no fixed order, each at most once and with the
\* address relative to its own range, until one of them raises; when none
\* raises every covering handler has been called, so an address that two
\* handlers cover reaches both and an address that one handler covers reaches
\* that one alone.
C2_EveryCoveringHandlerCalled ==
    last.op = "write" =>
        /\ \A k \in 1 .. Len(last.calls) :
              /\ \E i \in covering(write_cbs, last.arg) :
                    /\ last.calls[k].data = i.data
                    /\ last.calls[k].begin = i.begin
                    /\ last.calls[k].addr = last.arg - i.begin
              /\ last.calls[k].value = last.val
              /\ \A j \in 1 .. Len(last.calls) : last.calls[j].data = last.calls[k].data => j = k
        /\ Len(last.calls) <= Cardinality(covering(write_cbs, last.arg))
        /\ last.exc = "none" => Len(last.calls) = Cardinality(covering(write_cbs, last.arg))
        /\ (last.exc # "none" /\ last.calls # << >>) =>
              last.calls[Len(last.calls)].data \in {"rom", "acia1"}

\* h1 was registered, then h2 for a sub-range of it; a write into the sub-range
\* called both, h1 after h2.
C2_Witness ==
    /\ last.op = "write"
    /\ Len(reg_order) = 2
    /\ reg_order[1].data = "h1"
    /\ reg_order[2].data = "h2"
    /\ reg_order[1].begin < reg_order[2].begin
    /\ reg_order[2].end = reg_order[1].end
    /\ last.arg = reg_order[2].begin
    /\ last.exc = "none"
    /\ \E j, k \in 1 .. Len(last.calls) :
          /\ j < k
          /\ last.calls[j].data = "h2"
          /\ last.calls[j].addr = 0
          /\ last.calls[k].data = "h1"
          /\ last.calls[k].addr = 1

\* C6: after load_rom_bytes(b) with b not empty, the ROM byte at offset i is
\* b[i mod len(b)] for every offset i of the ROM.
C6_RomImageTiled ==
    (last.op = "load_rom_bytes" /\ last.val # << >>) =>
        \A i \in 0 .. (ROM_SIZE - 1) :
            memory[ROM_START + i] = last.val[(i % Len(last.val)) + 1]

\* An image one byte shorter than the ROM was loaded: its first byte is also
\* the last byte of the ROM.
C6_Witness ==
    /\ last.op = "load_rom_bytes"
    /\ Len(last.val) = ROM_SIZE - 1
    /\ last.val[1] # last.val[Len(last.val)]
    /\ memory[ROM_END - 1] = last.val[1]
    /\ memory[ROM_END - 2] = last.val[Len(last.val)]

\* An image longer than the ROM was loaded: its first ROM_SIZE bytes are the ROM.
C6_WitnessTruncated ==
    /\ last.op = "load_rom_bytes"
    /\ Len(last.val) > ROM_SIZE
    /\ last.val[ROM_SIZE + 1] # last.val[1]
    /\ \A i \in 1 .. ROM_SIZE : memory[ROM_START + i - 1] = last.val[i]

\* ------------------------------------------------------------ ACIA claims
IsReadOf(op, reg_idx) == op.op = "read_reg" /\ op.arg = reg_idx

C8_ReadDataClearsRDRF ==
    [][IsReadOf(last', 0) =>
          /\ last'.ret = acia1.recv_data
          /\ ~RDRF(acia1')
          /\ IRQ(acia1') = IRQ(acia1)
          /\ TDRE(acia1') = TDRE(acia1)
          /\ acia1'.recv_data = acia1.recv_data
          /\ acia1'.in_buffer = acia1.in_buffer
          /\ acia1'.sp_chars = acia1.sp_chars
          /\ acia1'.command_reg = acia1.command_reg
          /\ acia1'.control_reg = acia1.control_reg
          /\ IsReadOf(last, 0) => (last'.ret = last.ret /\ ~RDRF(acia1))]_vars

\* A received byte was read from register 0 twice in a row: the second read
\* returned it again and RDRF is clear.
C8_Witness ==
    /\ probe.stage = 4
    /\ IsReadOf(last, 0)
    /\ last.ret = probe.byte
    /\ ~RDRF(acia1)

\* C9: a read of register 1 returns the status register as it was before the
\* read; afterwards bit 7 is clear and TDRE, RDRF and the other registers are
\* as before, so a status read right after it returns the same value with bit
\* 7 clear.
C9_ReadStatusClearsIRQ ==
    [][IsReadOf(last', 1) =>
          /\ last'.ret = acia1.status_reg
          /\ ~IRQ(acia1')
          /\ TDRE(acia1') = TDRE(acia1)
          /\ RDRF(acia1') = RDRF(acia1)
          /\ acia1'.status_reg = ClearBit(acia1.status_reg, ST_IRQ)
          /\ acia1'.recv_data = acia1.recv_data
          /\ acia1'.command_reg = acia1.command_reg
          /\ acia1'.control_reg = acia1.control_reg
          /\ acia1'.in_buffer = acia1.in_buffer
          /\ IsReadOf(last, 1) => last'.ret = ClearBit(last.ret, ST_IRQ)]_vars

\* A status read returned a value with the IRQ bit set, and the bit is clear now.
C9_Witness ==
    /\ IsReadOf(last, 1)
    /\ HasBit(last.ret, ST_IRQ)
    /\ HasBit(last.ret, ST_RDRF)
    /\ ~IRQ(acia1)
    /\ RDRF(acia1)

C11_PollIrqFollowsCommand ==
    [][(last'.op = "poll" /\ ~RDRF(acia1) /\ RDRF(acia1') /\ ~IRQ(acia1)
            /\ acia1.command_reg = 0) =>
          /\ acia1'.recv_data = Head(Pending(acia1))
          /\ ~IRQ(acia1')]_vars

\* C12: a write of v to register 0 while TDRE is set puts v to the attached
\* port exactly once, leaves TDRE set, and sets the IRQ bit exactly when bits
\* 3:2 of the command register are 01.
C12_TxIrqFollowsCommand ==
    [][(last'.op = "write_reg" /\ last'.arg = 0 /\ TDRE(acia1) /\ ~IRQ(acia1)) =>
          /\ acia1'.sp_out = IF acia1.serial_port THEN Append(acia1.sp_out, last'.val)
                             ELSE acia1.sp_out
          /\ TDRE(acia1')
          /\ IRQ(acia1') <=> ((acia1.command_reg \div 4) % 4 = 1)]_vars

\* Two writes of register 0 in a row, with a port attached and nothing taken
\* from the port between them.
BackToBack ==
    /\ last.op = "write_reg"
    /\ last.arg = 0
    /\ last'.op = "write_reg"
    /\ last'.arg = 0
    /\ acia1.serial_port
    /\ acia1.sp_out # << >>

\* C13 as stated: the second of two transmissions in a row is dropped, the
\* port receives only the first byte.
C13_SecondTxDropped ==
    [][BackToBack => acia1'.sp_out = acia1.sp_out]_vars

\* C13: each transmission sets TDRE again before it returns, so the second
\* of two transmissions in a row finds TDRE set and is put to the port after
\* the first.
C13_SecondTxSent ==
    [][BackToBack =>
          /\ TDRE(acia1)
          /\ acia1'.sp_out = Append(acia1.sp_out, last'.val)
          /\ TDRE(acia1')]_vars

\* 'A' and 'B' were transmitted in a row and the port holds both, in order.
C13_Witness ==
    /\ last.op = "write_reg"
    /\ last.arg = 0
    /\ acia1.serial_port
    /\ acia1.sp_out = << 65, 66 >>
    /\ TDRE(acia1)

\* C14: a write to register 0 while TDRE is clear is dropped: nothing is put
\* to the port, no exception is raised, and the registers and the input
\* buffer are as before.
C14_TxDroppedWhenBusy ==
    [][(last'.op = "write_reg" /\ last'.arg = 0 /\ ~TDRE(acia1)) =>
          /\ acia1' = acia1
          /\ last'.exc = "none"]_vars

\* Register 0 was written with a port attached while TDRE was clear, and the
\* port received nothing.
C14_Witness ==
    /\ last.op = "write_reg"
    /\ last.arg = 0
    /\ ~TDRE(acia1)
    /\ acia1.serial_port
    /\ acia1.sp_out = << >>
    /\ acia1.in_buffer = << 66 >>

\* C24: a write to register 0 made while TDRE is set leaves TDRE set, whether
\* the port takes the byte or raises, so that the next transmission is not
\* dropped.
C24_SinkFailureIsolated ==
    [][(last'.op = "write_reg" /\ last'.arg = 0 /\ TDRE(acia1)) => TDRE(acia1')]_vars

\* C15: a write of any value to register 1 leaves the status register with
\* only TDRE set and the command register 0, and the control register as it
\* was before the write.
C15_ProgReset ==
    [][(last'.op = "write_reg" /\ last'.arg = 1) =>
          /\ acia1'.status_reg = ST_TDRE
          /\ acia1'.command_reg = 0
          /\ acia1'.control_reg = acia1.control_reg
          /\ last'.exc = "none"]_vars

\* Register 1 was written while the control register held 4, and it still does.
C15_Witness ==
    /\ last.op = "write_reg"
    /\ last.arg = 1
    /\ acia1.control_reg = 4
    /\ acia1.status_reg = ST_TDRE
    /\ acia1.command_reg = 0
    /\ acia1.recv_data = 65

\* ----------------------------------------------------- RAM and ROM loads
\* C17: a load_ram_bytes() that would run past the end of the memory image
\* fails with an error and leaves every byte of the image as it was.
C17_RamLoadAllOrNothing ==
    [][(last'.op = "load_ram_bytes" /\ last'.arg + Len(last'.val) > MemSize) =>
          /\ last'.exc \notin {"none", "killed"}
          /\ memory' = memory]_vars

\* C18: after a load_ram_bytes() that fits into the memory image, byte i of
\* the image is at addr + i and every cell outside [addr, addr + len) is as it
\* was; nothing is written at low addresses.
C18_RamLoadCopies ==
    [][(last'.op = "load_ram_bytes" /\ last'.arg + Len(last'.val) <= MemSize) =>
          /\ last'.exc = "none"
          /\ \A a \in Addr :
                memory'[a] = IF a >= last'.arg /\ a < last'.arg + Len(last'.val)
                             THEN last'.val[a - last'.arg + 1]
                             ELSE memory[a]]_vars

\* Two bytes were loaded into the last two cells of the image; cell 0 is
\* still 0.
C18_Witness ==
    /\ last.op = "load_ram_bytes"
    /\ Len(last.val) = 2
    /\ last.arg + 2 = MemSize
    /\ memory[MemSize - 2] = 65
    /\ memory[MemSize - 1] = 66
    /\ memory[0] = 0

RunWrites == {<< ACIA1_START + 2, 4 >>, << 0, 65 >>, << ROM_START, 65 >>}
RunImages == {<< 65 >>}

\* M6502.run returns what lib.M6502_run returns, and that is declared void.
run_result == NoValue

\* n_ticks += self.step(ticks_per_loop)
accumulate(n_ticks, stepped) == IF stepped = NoValue THEN "TypeError" ELSE "none"

never_alive(pc) == FALSE

\* Thread.is_alive()
is_alive(pc) == pc \notin {"unborn", "exited", "died"}

join_no_wait(pc) == TRUE

\* Thread.join() returns once the thread has ended.
join_returns(pc) == ~is_alive(pc)

never_running == TRUE

\* self._mpu_thread is None or not self._mpu_thread.is_alive()
not_running == mpu_thread = NoThread \/ ~is_alive(thread_pc[mpu_thread])

MainOp(pc, op, arg) == [pc |-> pc, op |-> op, arg |-> arg]

RunStep(op, arg) ==
    /\ last' = Op(op, arg, NoValue, NoValue, "none")
    /\ probe' = Idle
    /\ UNCHANGED << write_cbs, read_cbs, reg_order, irqVars, lcdVars >>

LoopCheckIgnoringStop(t) ==
    /\ thread_pc[t] = "check"
    /\ thread_pc' = [thread_pc EXCEPT ![t] = "acquire"]
    /\ RunStep("loop_check", t)
    /\ UNCHANGED << acia1, memory, mpu_lock, want_stop, mpu_thread, main, mpu_regs,
                    accesses, stop_returned >>

\* loop(): while not self._want_stop
LoopCheck(t) ==
    /\ thread_pc[t] = "check"
    /\ thread_pc' = [thread_pc EXCEPT ![t] = IF want_stop THEN "exited" ELSE "acquire"]
    /\ RunStep("loop_check", t)
    /\ UNCHANGED << acia1, memory, mpu_lock, want_stop, mpu_thread, main, mpu_regs,
                    accesses, stop_returned >>

\* step(): with self._mpu_lock
LoopAcquire(t) ==
    /\ thread_pc[t] = "acquire"
    /\ mpu_lock = Unlocked
    /\ mpu_lock' = t
    /\ thread_pc' = [thread_pc EXCEPT ![t] = "run"]
    /\ accesses' = 0
    /\ RunStep("loop_acquire", t)
    /\ UNCHANGED << acia1, memory, want_stop, mpu_thread, main, mpu_regs, stop_returned >>

\* One instruction of self.mpu.run(ticks) that writes memory.
LoopAccess(t, addr, value) ==
    /\ thread_pc[t] = "run"
    /\ accesses < MaxAccess
    /\ accesses' = accesses + 1
    /\ mpu_regs' = "stepped"
    /\ M6502_write(addr, value)
    /\ UNCHANGED << mpu_lock, want_stop, mpu_thread, thread_pc, main, stop_returned >>

LoopKeepLock(t) ==
    /\ thread_pc[t] = "run"
    /\ mpu_regs' = "stepped"
    /\ thread_pc' = [thread_pc EXCEPT ![t] = "accumulate"]
    /\ RunStep("loop_release", t)
    /\ UNCHANGED << acia1, memory, mpu_lock, want_stop, mpu_thread, main, accesses,
                    stop_returned >>

\* self.mpu.run(ticks) returns and step() releases the lock.
LoopRelease(t) ==
    /\ thread_pc[t] = "run"
    /\ mpu_lock' = Unlocked
    /\ mpu_regs' = "stepped"
    /\ thread_pc' = [thread_pc EXCEPT ![t] = "accumulate"]
    /\ RunStep("loop_release", t)
    /\ UNCHANGED << acia1, memory, want_stop, mpu_thread, main, accesses, stop_returned >>

\* n_ticks += self.step(ticks_per_loop), then the report and the next pass.
LoopAccumulate(t) ==
    /\ thread_pc[t] = "accumulate"
    /\ thread_pc' = [thread_pc EXCEPT ![t] =
                        IF accumulate(0, run_result) = "none" THEN "check" ELSE "died"]
    /\ last' = Op("loop_accumulate", t, NoValue, NoValue, accumulate(0, run_result))
    /\ probe' = Idle
    /\ UNCHANGED << acia1, memory, busVars, irqVars, lcdVars, mpu_lock, want_stop, mpu_thread,
                    main, mpu_regs, accesses, stop_returned >>

\* A call of reset(), start(), stop(), load_rom_bytes() or load_ram_bytes()
\* begins; the caller makes one call at a time.
MainCall(op, arg) ==
    /\ main.pc = "idle"
    /\ main' = MainOp(IF op \in {"start", "stop"} THEN "stop_check"
                      ELSE IF op = "reset" THEN "reset_hw" ELSE "load_acquire", op, arg)
    /\ stop_returned' = IF op = "start" THEN FALSE ELSE stop_returned
    /\ RunStep(op, arg)
    /\ UNCHANGED << acia1, memory, mpu_lock, want_stop, mpu_thread, thread_pc, mpu_regs,
                    accesses >>

\* reset(): self.acia1.hw_reset()
ResetHw ==
    /\ main.pc = "reset_hw"
    /\ acia1' = hw_reset(acia1)
    /\ main' = [main EXCEPT !.pc = "reset_acquire"]
    /\ RunStep("reset_hw", NoValue)
    /\ UNCHANGED << memory, mpu_lock, want_stop, mpu_thread, thread_pc, mpu_regs,
                    accesses, stop_returned >>

\* reset(): with self._mpu_lock
ResetAcquire ==
    /\ main.pc = "reset_acquire"
    /\ mpu_lock = Unlocked
    /\ mpu_lock' = MainThread
    /\ main' = [main EXCEPT !.pc = "reset_mpu"]
    /\ RunStep("reset_acquire", NoValue)
    /\ UNCHANGED << acia1, memory, want_stop, mpu_thread, thread_pc, mpu_regs,
                    accesses, stop_returned >>

\* reset(): self.mpu.reset(), and the lock is released.
ResetMpu ==
    /\ main.pc = "reset_mpu"
    /\ mpu_regs' = "reset"
    /\ mpu_lock' = Unlocked
    /\ main' = Idle_main
    /\ RunStep("reset_mpu", NoValue)
    /\ UNCHANGED << acia1, memory, want_stop, mpu_thread, thread_pc, accesses,
                    stop_returned >>

\* load_rom_bytes() and load_ram_bytes(): with self._mpu_lock
LoadAcquire ==
    /\ main.pc = "load_acquire"
    /\ mpu_lock = Unlocked
    /\ mpu_lock' = MainThread
    /\ main' = [main EXCEPT !.pc = "load_copy"]
    /\ RunStep("load_acquire", NoValue)
    /\ UNCHANGED << acia1, memory, want_stop, mpu_thread, thread_pc, mpu_regs,
                    accesses, stop_returned >>

\* load_rom_bytes() and load_ram_bytes(): the copy, and the lock is released.
LoadCopy ==
    /\ main.pc = "load_copy"
    /\ memory' = IF main.op = "load_rom_bytes"
                 THEN copy_rom(memory, ROM_START, main.arg, 1)
                 ELSE copy_ram(memory, 0, main.arg, 0)
    /\ mpu_lock' = Unlocked
    /\ main' = Idle_main
    /\ RunStep("load_copy", NoValue)
    /\ UNCHANGED << acia1, want_stop, mpu_thread, thread_pc, mpu_regs, accesses,
                    stop_returned >>

\* stop(), also as the first statement of start(): the test for a live thread,
\* and self._want_stop = True when there is one. The call notes the thread it
\* found alive.
StopCheck ==
    /\ main.pc = "stop_check"
    /\ IF not_running
       THEN /\ main' = IF main.op = "start" THEN [main EXCEPT !.pc = "start_thread"]
                       ELSE Idle_main
            /\ UNCHANGED want_stop
       ELSE /\ want_stop' = TRUE
            /\ main' = [main EXCEPT !.pc = "stop_exit", !.arg = << mpu_thread >>]
    /\ RunStep("stop_check", NoValue)
    /\ UNCHANGED << acia1, memory, mpu_lock, mpu_thread, thread_pc, mpu_regs, accesses,
                    stop_returned >>

\* stop(): self.mpu.exit() asks the processor to leave run() and returns.
StopExit ==
    /\ main.pc = "stop_exit"
    /\ main' = [main EXCEPT !.pc = "stop_join"]
    /\ RunStep("mpu_exit", NoValue)
    /\ UNCHANGED << acia1, memory, mpu_lock, want_stop, mpu_thread, thread_pc, mpu_regs,
                    accesses, stop_returned >>

\* stop(): self._mpu_thread.join()
StopJoin ==
    /\ main.pc = "stop_join"
    /\ join_returns(thread_pc[mpu_thread])
    /\ main' = IF main.op = "start" THEN [main EXCEPT !.pc = "start_thread"] ELSE Idle_main
    /\ stop_returned' = (main.op = "stop")
    /\ RunStep("stop_join", NoValue)
    /\ UNCHANGED << acia1, memory, mpu_lock, want_stop, mpu_thread, thread_pc, mpu_regs,
                    accesses >>

\* start(): the thread is created, _want_stop is cleared, the thread is started.
StartThread ==
    /\ main.pc = "start_thread"
    /\ \E t \in Threads :
          /\ thread_pc[t] = "unborn"
          /\ \A u \in Threads : u < t => thread_pc[u] # "unborn"
          /\ mpu_thread' = t
          /\ thread_pc' = [thread_pc EXCEPT ![t] = "check"]
    /\ want_stop' = FALSE
    /\ main' = Idle_main
    /\ RunStep("start_thread", main.arg)
    /\ UNCHANGED << acia1, memory, mpu_lock, mpu_regs, accesses, stop_returned >>

RunNext ==
    \/ \E op \in {"reset", "start", "stop"} : MainCall(op, << >>)
    \/ \E op \in {"load_rom_bytes", "load_ram_bytes"} : \E b \in RunImages : MainCall(op, b)
    \/ ResetHw
    \/ ResetAcquire
    \/ ResetMpu
    \/ LoadAcquire
    \/ LoadCopy
    \/ StopCheck
    \/ StopExit
    \/ StopJoin
    \/ StartThread
    \/ \E t \in Threads : LoopCheck(t)
    \/ \E t \in Threads : LoopAcquire(t)
    \/ \E t \in Threads : \E w \in RunWrites : LoopAccess(t, w[1], w[2])
    \/ \E t \in Threads : LoopRelease(t)
    \/ \E t \in Threads : LoopAccumulate(t)

SpecRun == MachineInit /\ [][RunNext]_vars

\* The steps of stepping thread t, and the steps by which a call of the
\* caller goes on once it has begun.
LoopSteps(t) ==
    \/ LoopCheck(t)
    \/ LoopAcquire(t)
    \/ \E w \in RunWrites : LoopAccess(t, w[1], w[2])
    \/ LoopRelease(t)
    \/ LoopAccumulate(t)

MainSteps ==
    \/ ResetHw
    \/ ResetAcquire
    \/ ResetMpu
    \/ LoadAcquire
    \/ LoadCopy
    \/ StopCheck
    \/ StopExit
    \/ StopJoin
    \/ StartThread

\* The machine under a scheduler that lets every thread that can take a step
\* take one in the end; when and whether the caller makes a call is left open.
SpecRunFair ==
    /\ SpecRun
    /\ WF_vars(MainSteps)
    /\ \A t \in Threads : WF_vars(LoopSteps(t))

\* ---------------------------------------------------------------------------
\* Claims about the stepping thread
\* ---------------------------------------------------------------------------

\* C4: every step that changes the memory image, the processor state or the
\* device registers is taken by the thread that holds the processor lock, and
\* the caller's reset and bulk loads change none of them while a stepping
\* thread is inside a batch.
C4_MutationsUnderLock ==
    [][(acia1' # acia1 \/ memory' # memory \/ mpu_regs' # mpu_regs) =>
          IF main' # main
          THEN mpu_lock = MainThread /\ \A t \in Threads : thread_pc[t] # "run"
          ELSE mpu_lock \in Threads /\ thread_pc[mpu_lock] = "run"]_vars

\* C5: once stop() has returned from a call on a running machine, and until
\* start() is called again, no stepping thread is alive, so none is in a batch.
C5_StopJoinsThread ==
    stop_returned => \A t \in Threads : ~is_alive(thread_pc[t])

\* stop() was called while the thread was alive, the thread ran its batch, and
\* stop() has returned from the join.
C5_Witness ==
    /\ stop_returned
    /\ last.op = "stop_join"
    /\ mpu_thread # NoThread
    /\ thread_pc[mpu_thread] = "died"
    /\ mpu_regs = "stepped"

\* C16: when reset() returns, from whatever state it was called in, the status
\* register of the ACIA holds only TDRE and its command and control registers
\* are 0.
C16_ResetRestoresRegisters ==
    last.op = "reset_mpu" =>
        /\ acia1.status_reg = ST_TDRE
        /\ acia1.command_reg = 0
        /\ acia1.control_reg = 0

\* C20 as stated: a start() called while the stepping thread is alive leaves
\* the stop flag as it is and creates no thread.
C20_StartIdempotent ==
    [][/\ (main.pc = "stop_check" /\ main.op = "start" /\ ~not_running
              /\ main' # main) => want_stop' = want_stop
       /\ last'.op = "start_thread" => last'.arg = << >>]_vars

\* C20: start() stops first. Called while a stepping thread is alive, it sets
\* the stop flag and joins that thread; when it creates its thread no other
\* stepping thread is alive, the thread is a new one, and the stop flag is
\* cleared.
C20_StartRestarts ==
    [][last'.op = "start_thread" =>
          /\ \A t \in Threads : ~is_alive(thread_pc[t])
          /\ mpu_thread' # mpu_thread
          /\ {t \in Threads : is_alive(thread_pc'[t])} = {mpu_thread'}
          /\ ~want_stop']_vars

\* start() found thread 1 alive, joined it and started thread 2.
C20_Witness ==
    /\ last.op = "start_thread"
    /\ last.arg = << 1 >>
    /\ mpu_thread = 2
    /\ ~is_alive(thread_pc[1])
    /\ thread_pc[2] = "check"
    /\ ~want_stop

\* ---------------------------------------------------------------------------
\* BuriSim.step called by the owner of the machine
\* ---------------------------------------------------------------------------

\* What step() does to the devices before the processor runs: nothing, the
\* body of step() is the call of self.mpu.run() under the lock.
step_devices(a) == a

\* step(ticks) with a program whose first instruction reads the status
\* register of the ACIA: the lock is taken, the processor runs, the lock is
\* released.
Step ==
    /\ main.pc = "idle"
    /\ mpu_lock = Unlocked
    /\ \E order \in Orders(covering(read_cbs, ACIA1_START + 1)) :
          LET st == read_loop(Access(step_devices(acia1)), iterated(order), ACIA1_START + 1)
          IN  /\ acia1' = st.acia
              /\ last' = BusOp("step", ACIA1_START + 1, NoValue, st)
    /\ probe' = Idle
    /\ mpu_regs' = "stepped"
    /\ UNCHANGED << busVars, irqVars, lcdVars, mpu_lock, want_stop, mpu_thread, thread_pc, main,
                    accesses, stop_returned >>

\* The machine stepped by its owner while characters arrive at the port.
StepNext ==
    \/ AttachPort
    \/ \E b \in RxVals : PortArrive(b)
    \/ Poll
    \/ ReadReg(0)
    \/ Step

SpecStep == MachineInit /\ [][StepNext]_vars

\* C21: step() polls the devices before the processor runs, so a byte that is
\* in the input buffer of the ACIA when step() is called, with RDRF clear, is
\* in the receive data register, with RDRF set, when the first instruction
\* of the step reads the status register.
C21_StepPollsFirst ==
    [][(last'.op = "step" /\ ~RDRF(acia1) /\ acia1.in_buffer # << >>) =>
          /\ HasBit(last'.ret, ST_RDRF)
          /\ acia1'.recv_data = Head(acia1.in_buffer)]_vars

\* C22: step() returns the number of ticks the processor ran, and the loop
\* adds it to its tick counter after every batch and goes on.
C22_StepReturnsTicks ==
    [][last'.op = "loop_accumulate" =>
          /\ run_result # NoValue
          /\ last'.exc = "none"
          /\ thread_pc'[last'.arg] = "check"]_vars

\* C23: an error raised in a pass of the loop does not end the loop with the
\* machine still marked as running: the thread goes on with the next pass, or
\* the stop flag is set when it ends.
C23_LoopSurvivesError ==
    [][(last'.op = "loop_accumulate" /\ last'.exc # "none") =>
          \/ thread_pc'[last'.arg] = "check"
          \/ want_stop']_vars

\* The intervals a recorded access dispatched over.
DispatchedCbs(op) == IF op = "read" THEN read_cbs ELSE write_cbs

\* C25: every handler an access to address a calls is registered for a range
\* [begin, end) that contains a, and is called with a - begin, a value in
\* [0, end - begin); a read of ACIA1_START + 1 that only the ACIA handles
\* returns the status register, register index 1.
C25_HandlerGetsRelativeAddress ==
    [][last'.op \in {"read", "write"} =>
          /\ \A k \in 1 .. Len(last'.calls) :
                \E i \in DispatchedCbs(last'.op) :
                   /\ i.data = last'.calls[k].data
                   /\ i.begin = last'.calls[k].begin
                   /\ i.begin <= last'.arg /\ last'.arg < i.end
                   /\ last'.calls[k].addr = last'.arg - i.begin
                   /\ last'.calls[k].addr \in 0 .. (i.end - i.begin - 1)
          /\ (/\ last'.op = "read"
              /\ last'.arg = ACIA1_START + 1
              /\ Len(last'.calls) = 1) =>
                (last'.calls[1].data = "acia1" /\ last'.ret = acia1.status_reg)]_vars

\* A read of ACIA1_START + 1 reached the ACIA with index 1 and a handler
\* registered at ACIA1_START + 1 with index 0.
C25_Witness ==
    /\ last.op = "read"
    /\ last.arg = ACIA1_START + 1
    /\ \E k \in 1 .. Len(last.calls) :
          last.calls[k].data = "acia1" /\ last.calls[k].addr = 1
    /\ \E k \in 1 .. Len(last.calls) :
          /\ last.calls[k].data = "h1"
          /\ last.calls[k].begin = ACIA1_START + 1
          /\ last.calls[k].addr = 0

\* C26: a read or a write of a register index outside 0 .. 3 raises IndexError
\* and leaves the ACIA as it was: status, command, control, receive data and
\* the input buffer.
C26_BadIndexFaults ==
    [][(last'.op \in {"read_reg", "write_reg"} /\ last'.arg \notin 0 .. 3) =>
          /\ last'.exc = "IndexError"
          /\ acia1'.status_reg = acia1.status_reg
          /\ acia1'.command_reg = acia1.command_reg
          /\ acia1'.control_reg = acia1.control_reg
          /\ acia1'.recv_data = acia1.recv_data
          /\ acia1'.in_buffer = acia1.in_buffer]_vars

\* A write to index 4 faulted on an ACIA with a received byte, a queued byte
\* and a programmed command register.
C26_Witness ==
    /\ last.op = "write_reg"
    /\ last.arg = ACIA1_SIZE
    /\ last.val = 65
    /\ last.exc = "IndexError"
    /\ RDRF(acia1)
    /\ acia1.command_reg = 4
    /\ acia1.control_reg = 0
    /\ acia1.in_buffer # << >>

\* C30: a write of v to register 2 (3) stores v in the command (control)
\* register and changes neither the other of the two, nor the receive data,
\* nor the RDRF and TDRE bits; a read of register 2 (3) returns the stored
\* value and changes nothing; the command register changes only by a write
\* to register 2 or a reset, the control register only by a write to
\* register 3 or a hardware reset.
C30_CommandControlVerbatim ==
    [][/\ (last'.op = "write_reg" /\ last'.arg = 2) =>
             /\ acia1'.command_reg = last'.val
             /\ read_reg(acia1', 2).ret = last'.val
             /\ acia1'.control_reg = acia1.control_reg
       /\ (last'.op = "write_reg" /\ last'.arg = 3) =>
             /\ acia1'.control_reg = last'.val
             /\ read_reg(acia1', 3).ret = last'.val
             /\ acia1'.command_reg = acia1.command_reg
       /\ (last'.op = "write_reg" /\ last'.arg \in {2, 3}) =>
             /\ last'.exc = "none"
             /\ acia1'.recv_data = acia1.recv_data
             /\ RDRF(acia1') = RDRF(acia1)
             /\ TDRE(acia1') = TDRE(acia1)
       /\ (last'.op = "read_reg" /\ last'.arg = 2) =>
             (last'.ret = acia1.command_reg /\ acia1' = acia1)
       /\ (last'.op = "read_reg" /\ last'.arg = 3) =>
             (last'.ret = acia1.control_reg /\ acia1' = acia1)
       /\ acia1'.command_reg # acia1.command_reg =>
             \/ last'.op = "write_reg" /\ last'.arg \in {1, 2}
             \/ last'.op = "hw_reset"
       /\ acia1'.control_reg # acia1.control_reg =>
             \/ last'.op = "write_reg" /\ last'.arg = 3
             \/ last'.op = "hw_reset"]_vars

\* The control register was read back as written, with other operations in
\* between: a byte has been received and the command register is clear.
C30_Witness ==
    /\ last.op = "read_reg"
    /\ last.arg = 3
    /\ last.ret = 4
    /\ acia1.control_reg = 4
    /\ acia1.command_reg = 0
    /\ RDRF(acia1)

C28_StopAtBatchBoundary ==
    /\ [][\A t \in Threads :
             (want_stop /\ thread_pc[t] = "check" /\ thread_pc'[t] # "check") =>
                thread_pc'[t] = "exited"]_vars
    /\ (main.pc = "stop_exit") ~>
          (mpu_thread # NoThread /\ thread_pc[mpu_thread] \in {"exited", "died"})
    /\ (main.pc = "stop_exit" /\ main.op = "stop") ~> stop_returned

\* stop() has returned after the stepping thread left its loop at the test of
\* the stop flag.
C28_Witness ==
    /\ last.op = "stop_join"
    /\ stop_returned
    /\ want_stop
    /\ thread_pc[mpu_thread] = "exited"

\* C29: at most one stepping thread has begun and not ended, and at most one
\* is inside a batch.
C29_BatchesSequential ==
    /\ Cardinality({t \in Threads :
                       thread_pc[t] \in {"check", "acquire", "run", "accumulate"}}) <= 1
    /\ Cardinality({t \in Threads : thread_pc[t] = "run"}) <= 1

\* The second stepping thread is inside a batch and the first has ended.
C29_Witness ==
    /\ mpu_thread = 2
    /\ thread_pc[2] = "run"
    /\ thread_pc[1] \in {"exited", "died"}

\* ---------------------------------------------------------------------------
\* Claims about the ACIA and the ~IRQ lines
\* ---------------------------------------------------------------------------

\* C31: when a poll or a register write takes the IRQ bit of the ACIA's status
\* register from clear to set while no line is pulled low, the ACIA pulls its
\* own ~IRQ line (line 0) low
\* and the processor's irq() is called once.
C31_AciaAssertsItsLine ==
    [][(/\ last'.op \in {"poll", "write_reg"}
        /\ ~IRQ(acia1) /\ IRQ(acia1')
        /\ irq(irq_lines)) =>
          /\ irq_lines'[1] = FALSE
          /\ irq_count' = irq_count + 1]_vars

\* C32: a write of 0xFF to the command register, which sets the receiver
\* interrupt enable bit whichever bit that is, made while RDRF is set and no
\* interrupt is pending, sets the IRQ bit.
C32_CommandWriteRaisesIrq ==
    [][(/\ last'.op = "write_reg" /\ last'.arg = 2 /\ last'.val = 255
        /\ RDRF(acia1) /\ ~IRQ(acia1)) => IRQ(acia1')]_vars

\* C33: the value last passed to the set-register callback for each of the
\* registers 0 .. 3 is the value the ACIA holds in that register.
C33_MirrorConsistent ==
    /\ acia1.set_reg[0] = acia1.recv_data
    /\ acia1.set_reg[1] = acia1.status_reg
    /\ acia1.set_reg[2] = acia1.command_reg
    /\ acia1.set_reg[3] = acia1.control_reg

\* C34: a stepping thread that has finished a batch sleeps before it does
\* anything else: its next position is the sleep.
C34_LoopSleepsAfterBatch ==
    [][\A t \in Threads :
          (thread_pc[t] = "accumulate" /\ thread_pc'[t] # "accumulate") =>
             thread_pc'[t] = "sleep"]_vars

\* The receiver and its reader: bytes are delivered to the ACIA, the ACIA is
\* polled, and the reader reads the status register and, when RDRF is set,
\* the receive data. Polls and reads go on for as long as they change
\* anything. A port may be attached; nothing arrives through it.
RecvNext ==
    \/ AttachPort
    \/ \E b \in RxVals : ReceiveByte(b)
    \/ Poll
    \/ ReadReg(1)
    \/ (RDRF(acia1) /\ ReadReg(0))

SpecRecv ==
    /\ MachineInit
    /\ [][RecvNext]_vars
    /\ WF_vars(Poll)
    /\ WF_vars(RDRF(acia1) /\ ReadReg(0))

\* A read of the receive data by a reader that has seen RDRF set returns the
\* byte transferred last, clears RDRF and leaves the waiting bytes alone.
C35_ReadTakesOnce ==
    [][(IsReadOf(last', 0) /\ RDRF(acia1)) =>
          /\ last'.ret = acia1.recv_data
          /\ ~RDRF(acia1')
          /\ Pending(acia1') = Pending(acia1)]_vars

\* The receive data changes and RDRF rises only when the oldest waiting byte
\* is transferred, with RDRF clear before; the waiting bytes change only by a
\* new byte at the end or by that transfer.
C35_TransferInOrder ==
    [][/\ (acia1'.recv_data # acia1.recv_data \/ (~RDRF(acia1) /\ RDRF(acia1'))) =>
             /\ ~RDRF(acia1)
             /\ Pending(acia1) \o (IF last'.op = "receive_byte" THEN << last'.val >> ELSE << >>)
                   = << acia1'.recv_data >> \o Pending(acia1')
       /\ Pending(acia1') # Pending(acia1) =>
             \/ /\ last'.op \in {"port_arrive", "receive_byte"}
                /\ RDRF(acia1') = RDRF(acia1)
                /\ Pending(acia1') = Append(Pending(acia1), last'.val)
             \/ (~RDRF(acia1) /\ RDRF(acia1'))]_vars

SeqNext ==
    \/ AttachPort
    \/ PortTake
    \/ \E value \in TxPair : WriteReg(0, value)
    \/ \E value \in TxPair : WriteRegSinkRaises(value)
    \/ \E value \in RegVals : WriteReg(2, value)
    \/ \E reg_idx \in 0 .. 3 : ReadReg(reg_idx)

SpecSeq == MachineInit /\ [][SeqNext]_vars

\* C36: TDRE is set after every operation that returned normally, and a
\* write to register 0 never finds TDRE clear.
C36_TdreSetBetweenOperations ==
    [][/\ last'.exc = "none" => TDRE(acia1')
       /\ (last'.op = "write_reg" /\ last'.arg = 0) => TDRE(acia1)]_vars

\* C37: a hardware reset and a programmed reset change neither the input
\* buffer, the bytes waiting at the port, nor the receive data; a read of
\* register 0 right after the reset returns the receive data from before it,
\* and the poll() that follows a reset with a port attached and a byte waiting
\* transfers the byte that was the oldest before the reset.
IsReset(op) == op.op = "hw_reset" \/ (op.op = "write_reg" /\ op.arg = 1)

C37_ResetKeepsReceiver ==
    [][/\ IsReset(last') =>
             /\ acia1'.in_buffer = acia1.in_buffer
             /\ acia1'.sp_chars = acia1.sp_chars
             /\ acia1'.recv_data = acia1.recv_data
             /\ read_reg(acia1', 0).ret = acia1.recv_data
       /\ (IsReset(last) /\ IsReadOf(last', 0)) => last'.ret = acia1.recv_data
       /\ (IsReset(last) /\ last'.op = "poll" /\ acia1.serial_port
              /\ Pending(acia1) # << >>) =>
             /\ acia1'.recv_data = Head(Pending(acia1))
             /\ Pending(acia1') = Tail(Pending(acia1))]_vars

\* A hardware reset was made with a byte in the receive data register and
\* another in the input buffer.
C37_Witness ==
    /\ last.op = "hw_reset"
    /\ acia1.recv_data = 66
    /\ acia1.in_buffer = << 65 >>
    /\ ~RDRF(acia1)

\* ---------------------------------------------------------------------------
\* Claims about the bulk loads
\* ---------------------------------------------------------------------------

LcdOp(op, reg, value, res) ==
    [op |-> op, arg |-> reg, val |-> value, ret |-> res.ret, exc |-> res.exc,
     emits |-> res.emits]

\* The addresses the accesses are made at: both ends of the display RAM.
LcdWindow == {0, 1, DDRAM_SIZE - 2, DDRAM_SIZE - 1}

\* The bytes written: data, and the instructions "nothing", "clear", "home",
\* "entry mode" and "set address".
LcdData == {65, 66}
LcdInstructions == {0, CLEAR_DISPLAY, RETURN_HOME, RETURN_HOME + 4} \cup
                   {SET_ADDRESS + c : c \in LcdWindow}
LcdValues(reg) == IF reg = 0 THEN LcdInstructions ELSE LcdData

\* HD44780.write(reg, value)
LcdWrite(reg, value) ==
    /\ reg = 1 => lcd.cursor_index \in LcdWindow
    /\ lcd' = lcd_write(lcd, reg, value).lcd
    /\ last' = LcdOp("lcd_write", reg, value, lcd_write(lcd, reg, value))
    /\ UNCHANGED << aciaVars, busVars, irqVars, runVars >>

\* HD44780.read(reg)
LcdRead(reg) ==
    /\ reg = 1 => lcd.cursor_index \in LcdWindow
    /\ lcd' = lcd_read(lcd, reg).lcd
    /\ last' = LcdOp("lcd_read", reg, NoValue, lcd_read(lcd, reg))
    /\ UNCHANGED << aciaVars, busVars, irqVars, runVars >>

\* HD44780.reset()
LcdReset ==
    /\ lcd' = NewLcd
    /\ last' = LcdOp("lcd_reset", NoValue, NoValue, LcdResult(lcd, NoValue, "none", 0))
    /\ UNCHANGED << aciaVars, busVars, irqVars, runVars >>

LcdNext ==
    \/ \E reg \in 0 .. 2 : \E value \in LcdValues(reg) : LcdWrite(reg, value)
    \/ \E reg \in 0 .. 2 : LcdRead(reg)
    \/ LcdReset

SpecLcd == MachineInit /\ [][LcdNext]_vars

IsLcdOp(op) == op.op \in {"lcd_write", "lcd_read", "lcd_reset"}

\* C39: ddram has 128 entries and cursor_index is in 0 .. 127 in every state;
\* a write or a read with reg outside {0, 1} raises IndexError, changes
\* neither ddram nor cursor_index and emits no update; a write with reg in
\* {0, 1} raises nothing and emits exactly one update.
C39_LcdInvariant ==
    /\ [](Len(lcd.ddram) = DDRAM_SIZE /\ lcd.cursor_index \in 0 .. (DDRAM_SIZE - 1))
    /\ [][/\ (IsLcdOp(last') /\ last'.op # "lcd_reset" /\ last'.arg \notin {0, 1}) =>
                /\ last'.exc = "IndexError"
                /\ lcd' = lcd
                /\ last'.emits = 0
          /\ (last'.op = "lcd_write" /\ last'.arg \in {0, 1}) =>
                /\ last'.exc = "none"
                /\ last'.emits = 1]_vars

\* A write with reg = 2 was refused on a display that holds a character and
\* whose cursor has wrapped from the last cell to the first.
C39_Witness ==
    /\ last.op = "lcd_write"
    /\ last.arg = 2
    /\ last.exc = "IndexError"
    /\ lcd.ddram[DDRAM_SIZE] = 65
    /\ lcd.cursor_index = 0

\* write(0, 0x80|c), write(1, v), write(0, 0x80|c), read(1) on the display l
round_trip(l, c, v) ==
    LET addressed == lcd_write(l, 0, SET_ADDRESS + c).lcd
        written == lcd_write(addressed, 1, v).lcd
        again == lcd_write(written, 0, SET_ADDRESS + c).lcd
    IN  lcd_read(again, 1)

\* The next address: 127 wraps to 0.
next_address(c) == IF c = DDRAM_SIZE - 1 THEN 0 ELSE c + 1

\* C40: on every display state, for every address c in 0 .. 127 and byte v,
\* write(0, 0x80|c), write(1, v), write(0, 0x80|c), read(1) returns v; a data
\* write and a data read advance cursor_index by one, 127 wrapping to 0; a
\* data write stores the byte at the cursor position it found and changes no
\* other cell, and a data read returns the cell at the cursor position it
\* found and changes no cell.
C40_LcdDataRoundTrip ==
    /\ [](\A c \in 0 .. (DDRAM_SIZE - 1) : \A v \in LcdData \cup {0, 255} :
             LET res == round_trip(lcd, c, v)
             IN  res.ret = v /\ res.lcd.cursor_index = next_address(c))
    /\ [][/\ (last'.op \in {"lcd_write", "lcd_read"} /\ last'.arg = 1) =>
                lcd'.cursor_index = next_address(lcd.cursor_index)
          /\ (last'.op = "lcd_write" /\ last'.arg = 1) =>
                /\ lcd'.ddram[lcd.cursor_index + 1] = last'.val
                /\ \A k \in 1 .. DDRAM_SIZE :
                      k # lcd.cursor_index + 1 => lcd'.ddram[k] = lcd.ddram[k]
          /\ (last'.op = "lcd_read" /\ last'.arg = 1) =>
                /\ last'.ret = lcd.ddram[lcd.cursor_index + 1]
                /\ lcd'.ddram = lcd.ddram]_vars

\* A data read returned the byte written to the last cell and the cursor
\* wrapped to the first cell, which holds another byte.
C40_Witness ==
    /\ last.op = "lcd_read"
    /\ last.arg = 1
    /\ last.ret = 65
    /\ lcd.cursor_index = 0
    /\ lcd.ddram[DDRAM_SIZE] = 65
    /\ lcd.ddram[1] = 66

====
